---- MODULE Spec2Model ----
(***************************************************************************)
(* server.js: the start-up of the process, then the GET                     *)
(* /api/download-schedule pipeline of one request, followed from its       *)
(* acceptance to the single response it emits.  Every action of the        *)
(* pipeline is one upstream call (an `await fetch`) together with all the  *)
(* synchronous code that runs on its response up to the next call.         *)
(*                                                                         *)
(* The upstream (token endpoint, Graph, SharePoint REST) is the            *)
(* environment: the response of every call is drawn from a bounded set.    *)
(* Drive and item identifiers are opaque to the code, so a listing of n    *)
(* drives is given the ids 1..n.                                           *)
(*                                                                         *)
(* LiveSpec adds that every upstream call completes.  ReplaySpec runs the  *)
(* request again, alone or twice at once, against an upstream that repeats *)
(* its answers, with the first run as the reference.                       *)
(***************************************************************************)
EXTENDS Integers, Sequences, FiniteSets, TLC

\* ---------------------------------------------------------------- bounds
MaxDrives == 2      \* drives in one drive listing
MaxItems == 2       \* items in one search result

\* ----------------------------------------------------- program constants
DefaultSiteName == "SuniqueKnowledgeBase"
fileName == "Assembly Schedule (New Version).xlsx"
GraphScope == "https://graph.microsoft.com/.default"
SpScope == "https://<hostname>/.default"
XlsxMime == "application/vnd.openxmlformats-officedocument.spreadsheetml.sheet"
JsonMime == "application/json"
\* `file.parentReference?.driveId` of an item that carries no parent reference
Undefined == 0

\* --------------------------------------------------------- the environment
\* process.env is a function from the names that are set to their values; a
\* name outside its domain reads as undefined
RequiredNames ==
    <<"SHAREPOINT_TENANT_ID", "SHAREPOINT_CLIENT_ID", "SHAREPOINT_CLIENT_SECRET",
      "SHAREPOINT_HOSTNAME">>
RequiredValues == {"", "configured"}
\* SHAREPOINT_SITE_NAME, when it is set
EnvSiteNames == {"sccr"}
RequiredEnvs ==
    UNION {[S -> RequiredValues] : S \in SUBSET {RequiredNames[i] : i \in 1..4}}
SiteNameEnvs ==
    UNION {[S -> EnvSiteNames] : S \in SUBSET {"SHAREPOINT_SITE_NAME"}}
Environments == {r @@ n : r \in RequiredEnvs, n \in SiteNameEnvs}
SiteIds == {"siteA", "siteB"}
ErrStatuses == {403, 404}
Payloads == {<<>>, <<80, 75, 3, 200>>}
ErrorText == "upstream error body"

VARIABLES
    env,           \* process.env
    stderr,        \* what the start-up code wrote with console.error
    CONFIG,        \* the configuration record (siteName)
    pc,            \* START, EXITED or LISTENING; then the call the handler is
                   \* about to issue, or SENT / FAILED
    accessToken,   \* getAccessToken's result ("" before)
    spToken,       \* getFileByGuid's tenant-host token ("" before)
    siteIds,       \* getAllSiteIds' accumulator, then `sites`
    k,             \* position in the `sitesToTry` loop being run
    s,             \* position in `for (const site of sites)`
    drives,        \* drivesData.value || [] of the site being searched
    d,             \* position in `for (const drive of ...)`
    fileLocation,  \* <<>> or <<[driveId, itemId]>>
    fileBuffer,    \* <<>> (null) or <<buffer>>
    res,           \* the responses written to the client, in order
    calls,         \* history: the upstream calls issued, in order
    lastResp,      \* history: the response of the last upstream call
    fixture,       \* replay only: the upstream's fixed answer to each request
    firstRun,      \* replay only: <<>> or <<[calls, res]>> of the first run
    parked         \* replay only: <<>> or <<locals>> of the suspended request;
                   \* locator comparison: <<locals of findFile>>

vars == <<env, stderr, CONFIG, pc, accessToken, spToken, siteIds, k, s, drives, d,
          fileLocation, fileBuffer, res, calls, lastResp, fixture, firstRun, parked>>

\* ------------------------------------------------------ upstream responses
NoResp ==
    [status |-> 0, text |-> "", token |-> "", siteId |-> "",
     hasValue |-> FALSE, value |-> <<>>, buffer |-> <<>>]

ErrResponses == {[NoResp EXCEPT !.status = st, !.text = ErrorText] : st \in ErrStatuses}

\* the token endpoint issues a token for the audience asked for
TokenResponses(scope) ==
    ErrResponses \cup {[NoResp EXCEPT !.status = 200, !.token = scope]}

SiteResponses ==
    ErrResponses \cup {[NoResp EXCEPT !.status = 200, !.siteId = id] : id \in SiteIds}

FileResponses ==
    ErrResponses \cup {[NoResp EXCEPT !.status = 200, !.buffer = b] : b \in Payloads}

\* a listing of n drives
DriveListing(n) == [j \in 1..n |-> [id |-> j]]

\* a search result of n items; the first item is free, the others follow it
SearchValue(n, first, parent) ==
    [j \in 1..n |-> [id |-> ((first + j - 2) % MaxItems) + 1,
                     parentDriveId |-> IF j = 1 THEN parent ELSE Undefined]]

\* the parent reference of a matched item: absent, or the site's first drive
ParentDriveIds == {Undefined, DriveListing(1)[1].id}

SearchValues ==
    {<<>>} \cup {SearchValue(n, first, parent) :
                    n \in 1..MaxItems, first \in 1..MaxItems,
                    parent \in ParentDriveIds}

\* a non-success answer may carry a body with a result list all the same
SearchResponses ==
    ErrResponses
    \cup {[NoResp EXCEPT !.status = 404, !.text = ErrorText, !.hasValue = TRUE,
                         !.value = SearchValue(1, 1, Undefined)]}
    \cup {[NoResp EXCEPT !.status = 200]}
    \cup {[NoResp EXCEPT !.status = 200, !.hasValue = TRUE, !.value = v] :
              v \in SearchValues}

DrivesResponses ==
    ErrResponses
    \cup {[NoResp EXCEPT !.status = 200]}
    \cup {[NoResp EXCEPT !.status = 200, !.hasValue = TRUE, !.value = DriveListing(n)] :
              n \in 0..MaxDrives}

\* ------------------------------------------------------------ pure helpers
\* node-fetch's response.ok
Ok(resp) == resp.status >= 200 /\ resp.status < 300

\* `${response.status}` in a template literal
StatusText(resp) == ToString(resp.status)

\* error messages, as the pieces of their template literals
AuthFailedMessage(resp) ==
    <<"Authentication failed: ", StatusText(resp), " - ", resp.text>>

NoSitesMessage == <<"No accessible SharePoint sites found">>

\* NotFoundMessage without the interpolated file name
NotFoundMessage_NoName == <<"File not found in any accessible SharePoint sites">>

NotFoundMessage ==
    <<"File \"", fileName, "\" not found in any accessible SharePoint sites">>

DownloadFailedMessage(resp) ==
    <<"Failed to download file: ", StatusText(resp), " - ", resp.text>>

\* getAllSiteIds' candidates, in probe order
SitesToTry ==
    <<[name |-> CONFIG.siteName, path |-> "/sites/" \o CONFIG.siteName],
      [name |-> DefaultSiteName, path |-> "/sites/" \o DefaultSiteName],
      [name |-> "root", path |-> ""]>>

\* getFileByGuid's candidates
GuidSitesToTry == <<DefaultSiteName, CONFIG.siteName, "sccr">>

\* ResolvedSite keeping the candidate's name in place of the id returned
ResolvedSite_ByName(resp) == [id |-> SitesToTry[k].name]

\* what getAllSiteIds pushes for a successful lookup
ResolvedSite(resp) == [id |-> resp.siteId]

\* SearchHit without the `if (response.ok)` around the look at data.value
SearchHit_IgnoreStatus(resp) == resp.hasValue /\ Len(resp.value) > 0

\* `response.ok && data.value && data.value.length > 0`
SearchHit(resp) == Ok(resp) /\ resp.hasValue /\ Len(resp.value) > 0

\* SiteDriveLocation taking the last item of the result, not the first
SiteDriveLocation_Last(resp) ==
    [driveId |-> resp.value[Len(resp.value)].parentDriveId,
     itemId |-> resp.value[Len(resp.value)].id]

\* Tier B: { driveId: file.parentReference?.driveId, itemId: file.id }
SiteDriveLocation(resp) ==
    [driveId |-> resp.value[1].parentDriveId, itemId |-> resp.value[1].id]

\* DriveLocation naming the first listed drive, not the drive searched
DriveLocation_FirstDrive(drive, resp) ==
    [driveId |-> drives[1].id, itemId |-> resp.value[1].id]

\* Tier C: { driveId: drive.id, itemId: file.id }
DriveLocation(drive, resp) ==
    [driveId |-> drive.id, itemId |-> resp.value[1].id]

\* `drivesData.value || []`
DrivesOf(resp) == IF resp.hasValue THEN resp.value ELSE <<>>

\* fileBuffer.toString() as UTF-8 and back: a byte that is no valid UTF-8
\* becomes U+FFFD, encoded EF BF BD
RECURSIVE Utf8RoundTrip(_)
Utf8RoundTrip(b) ==
    IF b = <<>> THEN <<>>
    ELSE (IF Head(b) < 128 THEN <<Head(b)>> ELSE <<239, 191, 189>>)
            \o Utf8RoundTrip(Tail(b))

\* FileResponse sending the buffer as text
FileResponse_AsText(buffer) ==
    [status |-> 200, contentType |-> XlsxMime, kind |-> "binary",
     body |-> Utf8RoundTrip(buffer), error |-> <<>>]

\* res.set('Content-Type', ...); res.send(fileBuffer)
FileResponse(buffer) ==
    [status |-> 200, contentType |-> XlsxMime, kind |-> "binary",
     body |-> buffer, error |-> <<>>]

\* res.status(500).json({ error: error.message, ... })
ErrorResponse(message) ==
    [status |-> 500, contentType |-> JsonMime, kind |-> "json",
     body |-> <<>>, error |-> message]

\* one entry of the call history: the endpoint (kind), what the URL or the body
\* addresses (name, site, drive, item), the bearer token, whether the code took
\* the response as a success (hit), and what it read from it (got: the site id
\* of a lookup; count: the number of drives of a listing)
Call(kind, name, site, drive, item, tok, hit, got, count) ==
    [kind |-> kind, name |-> name, site |-> site, drive |-> drive,
     item |-> item, tok |-> tok, hit |-> hit, got |-> got, count |-> count]

\* ------------------------------------------------------------------- Init
\* process.env.NAME
Env(name) == IF name \in DOMAIN env THEN <<env[name]>> ELSE <<>>

\* Falsy accepting the empty string: only an unset variable counts
Falsy_UndefinedOnly(v) == v = <<>>

\* `!CONFIG.x`: undefined or the empty string
Falsy(v) == v \in {<<>>, <<"">>}

\* validateConfig's `missing` after its four pushes
Missing ==
    LET push(m, name) == IF Falsy(Env(name)) THEN Append(m, name) ELSE m
    IN  push(push(push(push(<<>>, RequiredNames[1]), RequiredNames[2]),
                  RequiredNames[3]), RequiredNames[4])

\* missing.join(', '), as pieces
RECURSIVE Join(_)
Join(m) ==
    IF Len(m) <= 1 THEN m ELSE <<m[1], ", ">> \o Join(Tail(m))

MissingMessage(m) == <<"Missing required environment variables: ">> \o Join(m)

\* the module has been loaded: CONFIG is built, nothing has run yet
Init ==
    /\ env \in Environments
    /\ stderr = <<>>
    /\ CONFIG = [siteName |-> IF Falsy(Env("SHAREPOINT_SITE_NAME"))
                              THEN DefaultSiteName
                              ELSE env["SHAREPOINT_SITE_NAME"]]
    /\ pc = "START"
    /\ fixture = <<>>
    /\ firstRun = <<>>
    /\ parked = <<>>
    /\ accessToken = ""
    /\ spToken = ""
    /\ siteIds = <<>>
    /\ k = 1
    /\ s = 1
    /\ drives = <<>>
    /\ d = 1
    /\ fileLocation = <<>>
    /\ fileBuffer = <<>>
    /\ res = <<>>
    /\ calls = <<>>
    /\ lastResp = NoResp

\* ----------------------------------------------------------------- steps
\* the try block at the end of the module: validateConfig, then app.listen, or
\* console.error and process.exit(1)
Startup ==
    /\ pc = "START"
    /\ IF Len(Missing) > 0
       THEN /\ stderr' = Append(stderr,
                    <<"Failed to start server:">> \o MissingMessage(Missing))
            /\ pc' = "EXITED"
       ELSE /\ pc' = "LISTENING"
            /\ UNCHANGED stderr
    /\ UNCHANGED <<fixture, firstRun, parked, env, CONFIG, accessToken, spToken,
                   siteIds, k, s, drives, d,
                   fileLocation, fileBuffer, res, calls, lastResp>>

\* a GET /api/download-schedule arrives and its handler starts
Accept ==
    /\ pc = "LISTENING"
    /\ pc' = "AUTH"
    /\ UNCHANGED <<fixture, firstRun, parked, env, stderr, CONFIG, accessToken,
                   spToken, siteIds, k, s, drives, d, fileLocation, fileBuffer,
                   res, calls, lastResp>>

\* Throw with no catch around the pipeline: the rejection is unhandled and the
\* client is never answered
Throw_Unhandled(message) ==
    /\ pc' = "HUNG"
    /\ UNCHANGED res

\* the handler's catch block
Throw(message) ==
    /\ res' = Append(res, ErrorResponse(message))
    /\ pc' = "FAILED"

\* the end of the try block
Send(buffer) ==
    /\ res' = Append(res, FileResponse(buffer))
    /\ pc' = "SENT"

\* GetAccessToken without the `if (!response.ok) throw`
GetAccessToken_NoThrow ==
    /\ pc = "AUTH"
    /\ \E resp \in TokenResponses(GraphScope) :
        /\ lastResp' = resp
        /\ calls' = Append(calls, Call("token", GraphScope, "", 0, 0, "", Ok(resp), "", 0))
        /\ accessToken' = resp.token
        /\ pc' = "SITES"
        /\ UNCHANGED res
    /\ UNCHANGED <<fixture, firstRun, parked, env, stderr, CONFIG, spToken, siteIds, k, s, drives, d, fileLocation, fileBuffer>>

\* Step 1: getAccessToken
GetAccessToken ==
    /\ pc = "AUTH"
    /\ \E resp \in TokenResponses(GraphScope) :
        /\ lastResp' = resp
        /\ calls' = Append(calls, Call("token", GraphScope, "", 0, 0, "", Ok(resp), "", 0))
        /\ IF ~Ok(resp)
           THEN /\ Throw(AuthFailedMessage(resp))
                /\ UNCHANGED accessToken
           ELSE /\ accessToken' = resp.token
                /\ pc' = "SITES"
                /\ UNCHANGED res
    /\ UNCHANGED <<fixture, firstRun, parked, env, stderr, CONFIG, spToken, siteIds, k, s, drives, d, fileLocation, fileBuffer>>

\* TrySite returning at the first candidate that resolves
TrySite_StopAtFirst ==
    /\ pc = "SITES"
    /\ \E resp \in SiteResponses :
        /\ lastResp' = resp
        /\ calls' = Append(calls,
              Call("site", SitesToTry[k].path, "", 0, 0, accessToken, Ok(resp),
                   IF Ok(resp) THEN resp.siteId ELSE "", 0))
        /\ siteIds' = IF Ok(resp) THEN Append(siteIds, ResolvedSite(resp)) ELSE siteIds
        /\ IF k < Len(SitesToTry) /\ ~Ok(resp)
           THEN /\ k' = k + 1
                /\ UNCHANGED <<pc, res>>
           ELSE /\ k' = 1
                /\ IF Len(siteIds') = 0
                   THEN Throw(NoSitesMessage)
                   ELSE /\ pc' = "GUID_TOKEN"
                        /\ UNCHANGED res
    /\ UNCHANGED <<fixture, firstRun, parked, env, stderr, CONFIG, accessToken, spToken, s, drives, d, fileLocation, fileBuffer>>

\* TrySite throwing unless every candidate resolved
TrySite_AllRequired ==
    /\ pc = "SITES"
    /\ \E resp \in SiteResponses :
        /\ lastResp' = resp
        /\ calls' = Append(calls,
              Call("site", SitesToTry[k].path, "", 0, 0, accessToken, Ok(resp),
                   IF Ok(resp) THEN resp.siteId ELSE "", 0))
        /\ siteIds' = IF Ok(resp) THEN Append(siteIds, ResolvedSite(resp)) ELSE siteIds
        /\ IF k < Len(SitesToTry)
           THEN /\ k' = k + 1
                /\ UNCHANGED <<pc, res>>
           ELSE /\ k' = 1
                /\ IF Len(siteIds') < Len(SitesToTry)
                   THEN Throw(NoSitesMessage)
                   ELSE /\ pc' = "GUID_TOKEN"
                        /\ UNCHANGED res
    /\ UNCHANGED <<fixture, firstRun, parked, env, stderr, CONFIG, accessToken, spToken, s, drives, d, fileLocation, fileBuffer>>

\* TrySite without the `if (siteIds.length === 0) throw`
TrySite_NoThrow ==
    /\ pc = "SITES"
    /\ \E resp \in SiteResponses :
        /\ lastResp' = resp
        /\ calls' = Append(calls,
              Call("site", SitesToTry[k].path, "", 0, 0, accessToken, Ok(resp),
                   IF Ok(resp) THEN resp.siteId ELSE "", 0))
        /\ siteIds' = IF Ok(resp) THEN Append(siteIds, ResolvedSite(resp)) ELSE siteIds
        /\ UNCHANGED res
        /\ IF k < Len(SitesToTry)
           THEN /\ k' = k + 1
                /\ UNCHANGED pc
           ELSE /\ k' = 1
                /\ pc' = "GUID_TOKEN"
    /\ UNCHANGED <<fixture, firstRun, parked, env, stderr, CONFIG, accessToken, spToken, s, drives, d, fileLocation, fileBuffer>>

\* Step 2: one turn of getAllSiteIds' loop, and what follows the last turn
TrySite ==
    /\ pc = "SITES"
    /\ \E resp \in SiteResponses :
        /\ lastResp' = resp
        /\ calls' = Append(calls,
              Call("site", SitesToTry[k].path, "", 0, 0, accessToken, Ok(resp),
                   IF Ok(resp) THEN resp.siteId ELSE "", 0))
        /\ siteIds' = IF Ok(resp) THEN Append(siteIds, ResolvedSite(resp)) ELSE siteIds
        /\ IF k < Len(SitesToTry)
           THEN /\ k' = k + 1
                /\ UNCHANGED <<pc, res>>
           ELSE /\ k' = 1
                /\ IF Len(siteIds') = 0
                   THEN Throw(NoSitesMessage)
                   ELSE /\ pc' = "GUID_TOKEN"
                        /\ UNCHANGED res
    /\ UNCHANGED <<fixture, firstRun, parked, env, stderr, CONFIG, accessToken, spToken, s, drives, d, fileLocation, fileBuffer>>

\* GuidToken throwing, as getAccessToken does, when the exchange fails
GuidToken_Throws ==
    /\ pc = "GUID_TOKEN"
    /\ \E resp \in TokenResponses(SpScope) :
        /\ lastResp' = resp
        /\ calls' = Append(calls, Call("token", SpScope, "", 0, 0, "", Ok(resp), "", 0))
        /\ IF ~Ok(resp)
           THEN /\ Throw(AuthFailedMessage(resp))
                /\ UNCHANGED spToken
           ELSE /\ spToken' = resp.token
                /\ pc' = "GUID_FILE"
                /\ UNCHANGED res
    /\ UNCHANGED <<fixture, firstRun, parked, env, stderr, CONFIG, accessToken, siteIds, k, s, drives, d, fileLocation,
                   fileBuffer>>

\* Step 3: getFileByGuid, the tenant-host token
GuidToken ==
    /\ pc = "GUID_TOKEN"
    /\ \E resp \in TokenResponses(SpScope) :
        /\ lastResp' = resp
        /\ calls' = Append(calls, Call("token", SpScope, "", 0, 0, "", Ok(resp), "", 0))
        /\ IF ~Ok(resp)
           THEN /\ pc' = "SEARCH"
                /\ UNCHANGED spToken
           ELSE /\ spToken' = resp.token
                /\ pc' = "GUID_FILE"
    /\ UNCHANGED <<fixture, firstRun, parked, env, stderr, CONFIG, accessToken, siteIds, k, s, drives, d, fileLocation,
                   fileBuffer, res>>

\* GuidFile with the handler taking an empty buffer for null
\* (`if (!fileBuffer || fileBuffer.length === 0)`)
GuidFile_EmptyIsNull ==
    /\ pc = "GUID_FILE"
    /\ \E resp \in FileResponses :
        /\ lastResp' = resp
        /\ calls' = Append(calls,
              Call("guid", GuidSitesToTry[k], "", 0, 0, spToken, Ok(resp), "", 0))
        /\ IF Ok(resp)
           THEN /\ fileBuffer' = <<resp.buffer>>
                /\ k' = 1
                /\ IF resp.buffer = <<>>
                   THEN /\ pc' = "SEARCH"
                        /\ UNCHANGED res
                   ELSE Send(resp.buffer)
           ELSE /\ UNCHANGED <<fileBuffer, res>>
                /\ IF k < Len(GuidSitesToTry)
                   THEN /\ k' = k + 1
                        /\ UNCHANGED pc
                   ELSE /\ k' = 1
                        /\ pc' = "SEARCH"
    /\ UNCHANGED <<fixture, firstRun, parked, env, stderr, CONFIG, accessToken,
                   spToken, siteIds, s, drives, d, fileLocation>>

\* GuidFile with the handler searching whatever getFileByGuid returned
GuidFile_AlwaysSearch ==
    /\ pc = "GUID_FILE"
    /\ \E resp \in FileResponses :
        /\ lastResp' = resp
        /\ calls' = Append(calls,
              Call("guid", GuidSitesToTry[k], "", 0, 0, spToken, Ok(resp), "", 0))
        /\ fileBuffer' = IF Ok(resp) THEN <<resp.buffer>> ELSE fileBuffer
        /\ UNCHANGED res
        /\ IF k < Len(GuidSitesToTry) /\ ~Ok(resp)
           THEN /\ k' = k + 1
                /\ UNCHANGED pc
           ELSE /\ k' = 1
                /\ pc' = "SEARCH"
    /\ UNCHANGED <<fixture, firstRun, parked, env, stderr, CONFIG, accessToken, spToken, siteIds, s, drives, d, fileLocation>>

\* GuidFile sending the handler's Graph token instead of getFileByGuid's own
GuidFile_GraphToken ==
    /\ pc = "GUID_FILE"
    /\ \E resp \in FileResponses :
        /\ lastResp' = resp
        /\ calls' = Append(calls,
              Call("guid", GuidSitesToTry[k], "", 0, 0, accessToken, Ok(resp), "", 0))
        /\ IF Ok(resp)
           THEN /\ fileBuffer' = <<resp.buffer>>
                /\ Send(resp.buffer)
                /\ UNCHANGED k
           ELSE /\ UNCHANGED <<fileBuffer, res>>
                /\ IF k < Len(GuidSitesToTry)
                   THEN /\ k' = k + 1
                        /\ UNCHANGED pc
                   ELSE /\ k' = 1
                        /\ pc' = "SEARCH"
    /\ UNCHANGED <<fixture, firstRun, parked, env, stderr, CONFIG, accessToken, spToken, siteIds, s, drives, d, fileLocation>>

\* Step 3: one turn of getFileByGuid's loop
GuidFile ==
    /\ pc = "GUID_FILE"
    /\ \E resp \in FileResponses :
        /\ lastResp' = resp
        /\ calls' = Append(calls,
              Call("guid", GuidSitesToTry[k], "", 0, 0, spToken, Ok(resp), "", 0))
        /\ IF Ok(resp)
           THEN /\ fileBuffer' = <<resp.buffer>>
                /\ Send(resp.buffer)
                /\ UNCHANGED k
           ELSE /\ UNCHANGED <<fileBuffer, res>>
                /\ IF k < Len(GuidSitesToTry)
                   THEN /\ k' = k + 1
                        /\ UNCHANGED pc
                   ELSE /\ k' = 1
                        /\ pc' = "SEARCH"
    /\ UNCHANGED <<fixture, firstRun, parked, env, stderr, CONFIG, accessToken, spToken, siteIds, s, drives, d, fileLocation>>

\* NextSite giving up after the first site (a `throw` inside the loop)
NextSite_FirstSiteOnly ==
    /\ Throw(NotFoundMessage)
    /\ UNCHANGED s

\* findFileInAllSites: the end of one turn of `for (const site of sites)`
NextSite ==
    IF s < Len(siteIds)
    THEN /\ s' = s + 1
         /\ pc' = "SEARCH"
         /\ UNCHANGED res
    ELSE /\ Throw(NotFoundMessage)
         /\ UNCHANGED s

\* findFileInAllSites, approach 1: search in the site's default drive
SearchSiteDrive ==
    /\ pc = "SEARCH"
    /\ \E resp \in SearchResponses :
        /\ lastResp' = resp
        /\ calls' = Append(calls,
              Call("siteSearch", fileName, siteIds[s].id, 0, 0, accessToken,
                   SearchHit(resp), "", 0))
        /\ IF SearchHit(resp)
           THEN /\ fileLocation' = <<SiteDriveLocation(resp)>>
                /\ pc' = "DOWNLOAD"
           ELSE /\ pc' = "DRIVES"
                /\ UNCHANGED fileLocation
    /\ UNCHANGED <<fixture, firstRun, parked, env, stderr, CONFIG, accessToken, spToken, siteIds, k, s, drives, d, fileBuffer, res>>

\* findFileInAllSites, approach 2: list the site's drives
ListDrives ==
    /\ pc = "DRIVES"
    /\ \E resp \in DrivesResponses :
        /\ lastResp' = resp
        /\ calls' = Append(calls,
              Call("drives", "", siteIds[s].id, 0, 0, accessToken, Ok(resp), "",
                   IF Ok(resp) THEN Len(DrivesOf(resp)) ELSE 0))
        /\ d' = 1
        /\ IF Ok(resp) /\ Len(DrivesOf(resp)) > 0
           THEN /\ drives' = DrivesOf(resp)
                /\ pc' = "DRIVE_SEARCH"
                /\ UNCHANGED <<s, res>>
           ELSE /\ drives' = <<>>
                /\ NextSite
    /\ UNCHANGED <<fixture, firstRun, parked, env, stderr, CONFIG, accessToken, spToken, siteIds, k, fileLocation, fileBuffer>>

\* findFileInAllSites, approach 2: search one listed drive
SearchDrive ==
    /\ pc = "DRIVE_SEARCH"
    /\ \E resp \in SearchResponses :
        /\ lastResp' = resp
        /\ calls' = Append(calls,
              Call("driveSearch", fileName, "", drives[d].id, 0, accessToken,
                   SearchHit(resp), "", 0))
        /\ IF SearchHit(resp)
           THEN /\ fileLocation' = <<DriveLocation(drives[d], resp)>>
                /\ pc' = "DOWNLOAD"
                /\ UNCHANGED <<s, d, drives, res>>
           ELSE /\ UNCHANGED fileLocation
                /\ IF d < Len(drives)
                   THEN /\ d' = d + 1
                        /\ UNCHANGED <<pc, s, drives, res>>
                   ELSE /\ d' = 1
                        /\ drives' = <<>>
                        /\ NextSite
    /\ UNCHANGED <<fixture, firstRun, parked, env, stderr, CONFIG, accessToken, spToken, siteIds, k, fileBuffer>>

\* DownloadFile asking again after a non-success response
DownloadFile_Retry ==
    /\ pc = "DOWNLOAD"
    /\ \E resp \in FileResponses :
        /\ lastResp' = resp
        /\ calls' = Append(calls,
              Call("content", "", "", fileLocation[1].driveId, fileLocation[1].itemId,
                   accessToken, Ok(resp), "", 0))
        /\ IF ~Ok(resp)
           THEN UNCHANGED <<pc, res, fileBuffer>>
           ELSE /\ fileBuffer' = <<resp.buffer>>
                /\ Send(resp.buffer)
    /\ UNCHANGED <<fixture, firstRun, parked, env, stderr, CONFIG, accessToken, spToken, siteIds, k, s, drives, d, fileLocation>>

\* DownloadFile writing the body to the client before looking at response.ok
DownloadFile_SendFirst ==
    /\ pc = "DOWNLOAD"
    /\ \E resp \in FileResponses :
        /\ lastResp' = resp
        /\ calls' = Append(calls,
              Call("content", "", "", fileLocation[1].driveId, fileLocation[1].itemId,
                   accessToken, Ok(resp), "", 0))
        /\ fileBuffer' = <<resp.buffer>>
        /\ IF ~Ok(resp)
           THEN /\ res' = <<FileResponse(resp.buffer),
                            ErrorResponse(DownloadFailedMessage(resp))>>
                /\ pc' = "FAILED"
           ELSE Send(resp.buffer)
    /\ UNCHANGED <<fixture, firstRun, parked, env, stderr, CONFIG, accessToken, spToken, siteIds, k, s, drives, d, fileLocation>>

\* Step 5: downloadFile, then the response
DownloadFile ==
    /\ pc = "DOWNLOAD"
    /\ \E resp \in FileResponses :
        /\ lastResp' = resp
        /\ calls' = Append(calls,
              Call("content", "", "", fileLocation[1].driveId, fileLocation[1].itemId,
                   accessToken, Ok(resp), "", 0))
        /\ IF ~Ok(resp)
           THEN /\ Throw(DownloadFailedMessage(resp))
                /\ UNCHANGED fileBuffer
           ELSE /\ fileBuffer' = <<resp.buffer>>
                /\ Send(resp.buffer)
    /\ UNCHANGED <<fixture, firstRun, parked, env, stderr, CONFIG, accessToken, spToken, siteIds, k, s, drives, d, fileLocation>>

Next ==
    \/ Startup
    \/ Accept
    \/ GetAccessToken
    \/ TrySite
    \/ GuidToken
    \/ GuidFile
    \/ SearchSiteDrive
    \/ ListDrives
    \/ SearchDrive
    \/ DownloadFile

Spec == Init /\ [][Next]_vars

\* the steps of the handler, each one the completion of the upstream call the
\* handler is suspended on
Pipeline ==
    \/ GetAccessToken
    \/ TrySite
    \/ GuidToken
    \/ GuidFile
    \/ SearchSiteDrive
    \/ ListDrives
    \/ SearchDrive
    \/ DownloadFile

\* every upstream call eventually completes
LiveSpec == Init /\ [][Next]_vars /\ WF_vars(Pipeline)

\* ------------------------------------------------- replay under a fixture
\* The same pipeline run again, and run twice at once, against an upstream
\* that answers every request the same way each time it is made (fixture
\* data).  The first run is the request running alone.

\* what identifies a request to the upstream: endpoint, address, bearer
Key(c) ==
    [kind |-> c.kind, name |-> c.name, site |-> c.site, drive |-> c.drive,
     item |-> c.item, tok |-> c.tok]

\* the request the handler is suspended on
Pending ==
    CASE pc = "AUTH" -> Key(Call("token", GraphScope, "", 0, 0, "", FALSE, "", 0))
      [] pc = "SITES" ->
           Key(Call("site", SitesToTry[k].path, "", 0, 0, accessToken, FALSE, "", 0))
      [] pc = "GUID_TOKEN" -> Key(Call("token", SpScope, "", 0, 0, "", FALSE, "", 0))
      [] pc = "GUID_FILE" ->
           Key(Call("guid", GuidSitesToTry[k], "", 0, 0, spToken, FALSE, "", 0))
      [] pc = "SEARCH" ->
           Key(Call("siteSearch", fileName, siteIds[s].id, 0, 0, accessToken,
                    FALSE, "", 0))
      [] pc = "DRIVES" ->
           Key(Call("drives", "", siteIds[s].id, 0, 0, accessToken, FALSE, "", 0))
      [] pc = "DRIVE_SEARCH" ->
           Key(Call("driveSearch", fileName, "", drives[d].id, 0, accessToken,
                    FALSE, "", 0))
      [] pc = "DOWNLOAD" ->
           Key(Call("content", "", "", fileLocation[1].driveId,
                    fileLocation[1].itemId, accessToken, FALSE, "", 0))

\* the answers a fixture may hold for a request
FixtureResponses(key) ==
    CASE key.kind = "token" ->
           {r \in TokenResponses(key.name) : r.status # 403}
      [] key.kind = "site" ->
           {r \in SiteResponses : r.status # 403}
      [] key.kind \in {"guid", "content"} ->
           {r \in FileResponses : r.status # 403 /\ (Ok(r) => r.buffer # <<>>)}
      [] key.kind \in {"siteSearch", "driveSearch"} ->
           {r \in SearchResponses :
               /\ r.status # 403
               /\ r.hasValue = Ok(r)
               /\ Ok(r) => r.value = SearchValue(1, 1, Undefined)}
      [] key.kind = "drives" ->
           {r \in DrivesResponses :
               r.status # 403 /\ r.hasValue = Ok(r) /\ (Ok(r) => Len(r.value) >= 1)}

\* the upstream answers a request it has not seen before
Decide ==
    /\ pc \in {"AUTH", "SITES", "GUID_TOKEN", "GUID_FILE", "SEARCH", "DRIVES",
               "DRIVE_SEARCH", "DOWNLOAD"}
    /\ Pending \notin DOMAIN fixture
    /\ \E resp \in FixtureResponses(Pending) :
          fixture' = fixture @@ (Pending :> resp)
    /\ UNCHANGED <<env, stderr, CONFIG, pc, accessToken, spToken, siteIds, k, s,
                   drives, d, fileLocation, fileBuffer, res, calls, lastResp,
                   firstRun, parked>>

\* the call that completes is answered as the fixture says
FromFixture ==
    calls' # calls =>
       LET c == calls'[Len(calls')]
       IN  /\ Key(c) \in DOMAIN fixture
           /\ lastResp' = fixture[Key(c)]

\* the variables of one invocation of the handler and of the functions it calls
Locals ==
    [pc |-> pc, accessToken |-> accessToken, spToken |-> spToken,
     siteIds |-> siteIds, k |-> k, s |-> s, drives |-> drives, d |-> d,
     fileLocation |-> fileLocation, fileBuffer |-> fileBuffer, res |-> res,
     calls |-> calls, lastResp |-> lastResp]

\* FreshLocals with getAllSiteIds' accumulator declared at module level
FreshLocals_SharedSites ==
    [pc |-> "AUTH", accessToken |-> "", spToken |-> "", siteIds |-> siteIds,
     k |-> 1, s |-> 1, drives |-> <<>>, d |-> 1, fileLocation |-> <<>>,
     fileBuffer |-> <<>>, res |-> <<>>, calls |-> <<>>, lastResp |-> NoResp]

\* a new invocation: every variable is declared inside the functions
FreshLocals ==
    [pc |-> "AUTH", accessToken |-> "", spToken |-> "", siteIds |-> <<>>,
     k |-> 1, s |-> 1, drives |-> <<>>, d |-> 1, fileLocation |-> <<>>,
     fileBuffer |-> <<>>, res |-> <<>>, calls |-> <<>>, lastResp |-> NoResp]

\* the handler runs on with the locals l
Resume(l) ==
    /\ pc' = l.pc
    /\ accessToken' = l.accessToken
    /\ spToken' = l.spToken
    /\ siteIds' = l.siteIds
    /\ k' = l.k
    /\ s' = l.s
    /\ drives' = l.drives
    /\ d' = l.d
    /\ fileLocation' = l.fileLocation
    /\ fileBuffer' = l.fileBuffer
    /\ res' = l.res
    /\ calls' = l.calls
    /\ lastResp' = l.lastResp

\* the first run has ended; the same request is made again, once or twice at
\* the same time
Rerun ==
    /\ pc \in {"SENT", "FAILED"}
    /\ firstRun = <<>>
    /\ firstRun' = <<[calls |-> calls, res |-> res]>>
    /\ Resume(FreshLocals)
    /\ \E n \in 1..2 : parked' = IF n = 2 THEN <<FreshLocals>> ELSE <<>>
    /\ UNCHANGED <<env, stderr, CONFIG, fixture>>

\* Switch with siteIds shared by the two invocations
Switch_SharedSites ==
    /\ parked # <<>>
    /\ parked' = <<Locals>>
    /\ Resume([parked[1] EXCEPT !.siteIds = siteIds])
    /\ UNCHANGED <<env, stderr, CONFIG, fixture, firstRun>>

\* the event loop runs the other invocation on: each is suspended at an await
Switch ==
    /\ parked # <<>>
    /\ parked' = <<Locals>>
    /\ Resume(parked[1])
    /\ UNCHANGED <<env, stderr, CONFIG, fixture, firstRun>>

ReplayNext ==
    \/ Next /\ FromFixture
    \/ Decide
    \/ Rerun
    \/ Switch

ReplaySpec == Init /\ [][ReplayNext]_vars

\* ------------------------------------------------------- the call history
Kinds(K) == {i \in DOMAIN calls : calls[i].kind \in K}
LastCall == calls[Len(calls)]
Terminal == pc \in {"SENT", "FAILED"}


\* the calls of findFileInAllSites, in order
LocatorKinds == {"siteSearch", "drives", "driveSearch"}
IsLocatorCall(e) == e.kind \in LocatorKinds
Loc == SelectSeq(calls, IsLocatorCall)

\* The cascade of section 4.3 replayed over the locator's calls: which call is
\* due next (phase B: the default-drive search of site s; L: its drive
\* listing; C: the search of its d-th listed drive of n; found: none), given
\* what the calls so far returned.  ok turns FALSE at the first call that is
\* not the one due.
CascadeStart == [ok |-> TRUE, phase |-> "B", s |-> 1, d |-> 1, n |-> 0]

CascadeStep(st, e) ==
    LET bad == [st EXCEPT !.ok = FALSE]
        nextSite == [st EXCEPT !.phase = "B", !.s = st.s + 1, !.d = 1, !.n = 0]
    IN  IF ~st.ok THEN st
        ELSE CASE st.phase = "B" ->
                    IF e.kind = "siteSearch" /\ st.s <= Len(siteIds)
                          /\ e.site = siteIds[st.s].id
                    THEN [st EXCEPT !.phase = IF e.hit THEN "found" ELSE "L"]
                    ELSE bad
               [] st.phase = "L" ->
                    IF e.kind = "drives" /\ e.site = siteIds[st.s].id
                    THEN IF e.hit /\ e.count > 0
                         THEN [st EXCEPT !.phase = "C", !.d = 1, !.n = e.count]
                         ELSE nextSite
                    ELSE bad
               [] st.phase = "C" ->
                    IF e.kind = "driveSearch" /\ e.drive = DriveListing(st.n)[st.d].id
                    THEN IF e.hit THEN [st EXCEPT !.phase = "found"]
                         ELSE IF st.d < st.n THEN [st EXCEPT !.d = st.d + 1]
                         ELSE nextSite
                    ELSE bad
               [] OTHER -> bad

RECURSIVE CascadeAfter(_, _)
CascadeAfter(loc, i) ==
    IF i = 0 THEN CascadeStart ELSE CascadeStep(CascadeAfter(loc, i - 1), loc[i])

Cascade == LET loc == Loc IN CascadeAfter(loc, Len(loc))

\* every resolved site searched in full, in order, without a match
Exhausted ==
    LET c == Cascade
    IN  /\ Len(siteIds) >= 1
        /\ c.ok
        /\ c.phase = "B"
        /\ c.s = Len(siteIds) + 1

\* Tier A was run and returned null
TierAInconclusive ==
    LET g == SelectSeq(calls, LAMBDA e : e.kind = "guid")
        t == SelectSeq(calls, LAMBDA e : e.kind = "token" /\ e.name = SpScope)
    IN  /\ Len(t) = 1
        /\ \A i \in DOMAIN g : ~g[i].hit
        /\ IF t[1].hit
           THEN Len(g) = 3 /\ g[1].name = "SuniqueKnowledgeBase"
                /\ g[2].name = CONFIG.siteName /\ g[3].name = "sccr"
           ELSE Len(g) = 0

\* ------------------------------------------------------------------ claims

\* C1: when the generic-audience token exchange returns a non-success status,
\* the request has ended with one 500 JSON error response and that exchange
\* is the only upstream call of the request.
C1_AuthFailureEndsRequest ==
    (Len(calls) >= 1 /\ calls[1].kind = "token" /\ calls[1].name = GraphScope
        /\ ~calls[1].hit)
    => /\ pc = "FAILED"
       /\ Len(calls) = 1
       /\ Len(res) = 1
       /\ res[1].status = 500
       /\ res[1].kind = "json"
       /\ res[1].contentType = "application/json"

C1_Witness ==
    /\ pc = "FAILED"
    /\ Len(calls) = 1
    /\ calls[1].kind = "token"
    /\ ~Ok(lastResp)

\* C2: a request writes at most one response, and exactly one once it has
\* ended: 200 with the spreadsheet type and a binary body when SENT, 500 with
\* a JSON error object and no binary content when FAILED; binary content and
\* an error response are never both written.
C2_OneResponse ==
    /\ Len(res) <= 1
    /\ Terminal <=> Len(res) = 1
    /\ pc = "SENT" =>
          /\ res[1].status = 200
          /\ res[1].contentType =
                "application/vnd.openxmlformats-officedocument.spreadsheetml.sheet"
          /\ res[1].kind = "binary"
          /\ res[1].error = <<>>
    /\ pc = "FAILED" =>
          /\ res[1].status = 500
          /\ res[1].kind = "json"
          /\ res[1].error # <<>>
          /\ res[1].body = <<>>
    /\ ~(\E i, j \in DOMAIN res : res[i].kind = "binary" /\ res[j].kind = "json")

C2_Witness ==
    /\ pc = "FAILED"
    /\ LastCall.kind = "content"
    /\ lastResp.status = 404
    /\ Len(res) = 1

\* C3: once a legacy file-by-id fetch has succeeded, the request makes no
\* search and no drive listing, and tries no further legacy candidate.
C3_TierASuccessSkipsSearch ==
    \A i \in Kinds({"guid"}) :
        calls[i].hit =>
            /\ Kinds({"siteSearch", "driveSearch", "drives"}) = {}
            /\ \A j \in Kinds({"guid"}) : j <= i

C3_Witness ==
    /\ pc = "SENT"
    /\ LastCall.kind = "guid"
    /\ LastCall.hit
    /\ LastCall.name = CONFIG.siteName
    /\ Cardinality(Kinds({"guid"})) = 2

\* C4: a request fails with the file-not-found error only after Tier A was
\* inconclusive and every resolved site, in order, had its default drive
\* searched and, where the listing succeeded, every listed drive searched,
\* none with a match; and a request that has failed right after a search or a
\* drive listing has failed with that error after such an exhaustion, never
\* because of that one response.
C4_NotFoundOnlyAfterExhaustion ==
    /\ (pc = "FAILED" /\ res[1].error = NotFoundMessage) =>
          /\ TierAInconclusive
          /\ Exhausted
          /\ \A i \in Kinds(LocatorKinds \ {"drives"}) : ~calls[i].hit
          /\ Cardinality(Kinds({"siteSearch"})) = Len(siteIds)
          /\ Cardinality(Kinds({"drives"})) = Len(siteIds)
    /\ (pc = "FAILED" /\ Len(calls) >= 1 /\ IsLocatorCall(LastCall)) =>
          /\ Exhausted
          /\ res[1].error = NotFoundMessage

C4_Witness ==
    /\ pc = "FAILED"
    /\ res[1].error = NotFoundMessage
    /\ Len(siteIds) = 3
    /\ LastCall.kind = "driveSearch"
    /\ Ok(lastResp)
    /\ \E i \in Kinds({"drives"}) : ~calls[i].hit
    /\ \E i \in Kinds({"drives"}) : calls[i].count = 2
    /\ \E i \in Kinds({"guid"}) : TRUE

\* C5: the locator's calls follow the cascade order (sites in probe order,
\* per site the default-drive search, then the listing, then the listed
\* drives in listing order); the handle it returns is built from the first
\* item of the one search that matched, which is its last call; after a
\* match the only further call is the download of that handle.
C5_FirstMatchWins ==
    /\ Cascade.ok
    /\ fileLocation # <<>> => (TierAInconclusive /\ Cascade.phase = "found")
    /\ pc = "DOWNLOAD" =>
          /\ LastCall.kind \in {"siteSearch", "driveSearch"}
          /\ LastCall.hit
          /\ Ok(lastResp) /\ lastResp.hasValue /\ Len(lastResp.value) >= 1
          /\ \A i \in Kinds(LocatorKinds \ {"drives"}) :
                calls[i].hit => i = Len(calls)
          /\ fileLocation =
                <<[driveId |-> IF LastCall.kind = "siteSearch"
                               THEN lastResp.value[1].parentDriveId
                               ELSE LastCall.drive,
                   itemId |-> lastResp.value[1].id]>>
    /\ \A i \in Kinds(LocatorKinds \ {"drives"}) :
          calls[i].hit =>
             \A j \in DOMAIN calls :
                j > i => /\ j = i + 1
                         /\ calls[j].kind = "content"
                         /\ calls[j].drive = fileLocation[1].driveId
                         /\ calls[j].item = fileLocation[1].itemId

C5_Witness ==
    /\ pc = "DOWNLOAD"
    /\ s = 2
    /\ LastCall.kind = "siteSearch"
    /\ Len(lastResp.value) = 2
    /\ lastResp.value[1].id = 2
    /\ Cardinality(Kinds({"driveSearch"})) = 2

\* C6: Tier B found nothing for a site, its listing returned at least two
\* drives, the first drive's search found nothing and the second drive's
\* search matched: the handle is (second drive's id, id of the first item of
\* that search), and that is what the download is addressed to.
C6_SecondDriveMatch ==
    LET n == Len(calls)
        pattern(m) ==
            /\ m >= 4
            /\ calls[m].kind = "driveSearch" /\ calls[m].hit
            /\ calls[m - 1].kind = "driveSearch" /\ ~calls[m - 1].hit
            /\ calls[m - 2].kind = "drives" /\ calls[m - 2].count >= 2
            /\ calls[m - 3].kind = "siteSearch" /\ ~calls[m - 3].hit
    IN  /\ (pc = "DOWNLOAD" /\ pattern(n)) =>
              /\ Len(drives) >= 2
              /\ calls[n].drive = drives[2].id
              /\ fileLocation = <<[driveId |-> drives[2].id,
                                   itemId |-> lastResp.value[1].id]>>
              /\ fileLocation[1].driveId # drives[1].id
        /\ (n >= 1 /\ calls[n].kind = "content" /\ pattern(n - 1)) =>
              /\ calls[n].drive = calls[n - 1].drive
              /\ calls[n].drive # calls[n - 2].drive
              /\ calls[n].item = fileLocation[1].itemId

C6_Witness ==
    /\ pc = "DOWNLOAD"
    /\ Len(calls) >= 4
    /\ Len(drives) = 2
    /\ d = 2
    /\ LastCall.kind = "driveSearch" /\ LastCall.hit
    /\ Ok(lastResp) /\ calls[Len(calls) - 3].kind = "siteSearch"
    /\ lastResp.value[1].id = 2

\* the site lookups, in order
SiteCalls == SelectSeq(calls, LAMBDA e : e.kind = "site")

\* getAllSiteIds has returned or thrown
SitesResolved == accessToken # "" /\ pc # "SITES"

\* C7: the lookups go, one per candidate and in this order, to the configured
\* site name, to SuniqueKnowledgeBase and to the root site; the resolver ends
\* only after all three; its list holds the ids returned by the lookups that
\* succeeded, in probe order; and the request fails with the no-site error
\* exactly when none of the three succeeded.
C7_SiteResolver ==
    LET sc == SiteCalls
        expected == <<"/sites/" \o CONFIG.siteName, "/sites/SuniqueKnowledgeBase", "">>
        resolved == SelectSeq(sc, LAMBDA e : e.hit)
        noSite == pc = "FAILED" /\ res[1].error = <<"No accessible SharePoint sites found">>
    IN  /\ Len(sc) <= 3
        /\ \A i \in DOMAIN sc : sc[i].name = expected[i]
        /\ Len(siteIds) = Len(resolved)
        /\ \A i \in DOMAIN siteIds : siteIds[i].id = resolved[i].got
        /\ SitesResolved => Len(sc) = 3
        /\ SitesResolved => (noSite <=> Len(resolved) = 0)
        /\ noSite => SitesResolved /\ LastCall.kind = "site"
        /\ (pc = "FAILED" /\ LastCall.kind = "site") => noSite

C7_Witness ==
    /\ pc = "GUID_TOKEN"
    /\ Len(SiteCalls) = 3
    /\ SiteCalls[1].hit /\ ~SiteCalls[2].hit /\ SiteCalls[3].hit
    /\ siteIds = <<[id |-> "siteB"], [id |-> "siteA"]>>

\* C8: when only the last candidate (the root site) resolves, the resolver's
\* list is that one site, and every default-drive search and every drive
\* listing of the request is addressed to the id its lookup returned.
C8_OnlyLastResolves ==
    LET sc == SiteCalls
    IN  (Len(sc) = 3 /\ ~sc[1].hit /\ ~sc[2].hit /\ sc[3].hit) =>
            /\ siteIds = <<[id |-> sc[3].got]>>
            /\ sc[3].name = ""
            /\ \A i \in Kinds({"siteSearch", "drives"}) : calls[i].site = sc[3].got
            /\ Cardinality(Kinds({"siteSearch"})) <= 1
            /\ Cardinality(Kinds({"drives"})) <= 1

C8_Witness ==
    /\ Len(SiteCalls) = 3
    /\ ~SiteCalls[1].hit /\ ~SiteCalls[2].hit /\ SiteCalls[3].hit
    /\ pc = "DRIVE_SEARCH"
    /\ d = 2
    /\ Cardinality(Kinds({"drives"})) = 1

\* C9: when every resolved site has been searched in full without a match,
\* the request has failed with one 500 JSON response whose error message
\* contains the file name, and no content download was issued.
C9_NotFoundNamesFile ==
    Exhausted =>
        /\ pc = "FAILED"
        /\ Len(res) = 1
        /\ res[1].status = 500
        /\ res[1].kind = "json"
        /\ \E i \in DOMAIN res[1].error :
              res[1].error[i] = "Assembly Schedule (New Version).xlsx"
        /\ Kinds({"content"}) = {}

C9_Witness ==
    /\ Exhausted
    /\ pc = "FAILED"
    /\ Len(siteIds) = 2
    /\ LastCall.kind = "drives"

GuidCalls == SelectSeq(calls, LAMBDA e : e.kind = "guid")
SpTokenCalls ==
    {i \in Kinds({"token"}) : calls[i].name = "https://<hostname>/.default"}

\* C12: a failed tenant-host token exchange is followed by no legacy
\* file-by-id call and by the default-drive search of Tier B; so are three
\* failed legacy fetches; and no request has failed right after a Tier A call.
C12_TierANeverFatal ==
    /\ \A i \in SpTokenCalls :
          ~calls[i].hit =>
             /\ Kinds({"guid"}) = {}
             /\ IF i = Len(calls) THEN pc = "SEARCH"
                ELSE calls[i + 1].kind = "siteSearch"
    /\ \A i \in Kinds({"guid"}) :
          (/\ Cardinality({j \in Kinds({"guid"}) : j <= i}) = 3
           /\ \A j \in Kinds({"guid"}) : ~calls[j].hit) =>
             IF i = Len(calls) THEN pc = "SEARCH"
             ELSE calls[i + 1].kind = "siteSearch"
    /\ \A i \in Kinds({"guid"}) :
          (~calls[i].hit /\ i = Len(calls)) => pc \in {"GUID_FILE", "SEARCH"}
    /\ pc = "FAILED" =>
          /\ LastCall.kind # "guid"
          /\ Len(calls) \notin SpTokenCalls

C12_Witness ==
    /\ pc = "DRIVES"
    /\ Len(calls) - 1 \in SpTokenCalls
    /\ ~calls[Len(calls) - 1].hit
    /\ LastCall.kind = "siteSearch"

\* the step of section 4.5 an upstream call belongs to: 1 AUTH, 2 SITE_RESOLVE,
\* 3 LOCATE (Tier A), 4 LOCATE (Tiers B and C), 5 DOWNLOAD
Stage(e) ==
    CASE e.kind = "token" /\ e.name = "https://graph.microsoft.com/.default" -> 1
      [] e.kind = "site" -> 2
      [] e.kind = "token" /\ e.name = "https://<hostname>/.default" -> 3
      [] e.kind = "guid" -> 3
      [] e.kind \in {"siteSearch", "drives", "driveSearch"} -> 4
      [] e.kind = "content" -> 5
      [] OTHER -> 0

StageCalls(n) == {i \in DOMAIN calls : Stage(calls[i]) = n}

\* C13: the calls of a request come in the order AUTH, SITE_RESOLVE, Tier A,
\* Tiers B/C, DOWNLOAD; a step has calls only if the step before it succeeded
\* (token obtained; all three lookups made and a site resolved; Tier A
\* inconclusive; a handle located by the preceding search); a FAILED request
\* carries the error of the step of its last call and takes no further step,
\* nor does a SENT one.
C13_StepOrder ==
    /\ \A i \in DOMAIN calls :
          LET a == Stage(calls[i])
              b == IF i = 1 THEN 0 ELSE Stage(calls[i - 1])
          IN  /\ a \in 1..5
              /\ b <= a
              /\ a <= b + 1
              /\ a = 1 => i = 1
              /\ (a = 2 /\ b = 1) => calls[1].hit
              /\ (a = 3 /\ b = 2) =>
                    /\ i = 5
                    /\ \E j \in 2..4 : calls[j].hit
              /\ (calls[i].kind = "guid" /\ calls[i - 1].kind = "token") =>
                    calls[i - 1].hit
              /\ (a = 4 /\ b = 3) =>
                    /\ ~calls[i - 1].hit
                    /\ \/ calls[i - 1].kind = "token"
                       \/ /\ i = 9
                          /\ \A j \in 6..8 :
                                calls[j].kind = "guid" /\ ~calls[j].hit
              /\ a = 5 =>
                    /\ b = 4
                    /\ calls[i - 1].kind \in {"siteSearch", "driveSearch"}
                    /\ calls[i - 1].hit
                    /\ fileLocation # <<>>
                    /\ i = Len(calls)
    /\ pc = "FAILED" =>
          /\ Len(res) = 1
          /\ ~ENABLED Next
          /\ Stage(LastCall) # 3
          /\ Stage(LastCall) = 1 => res[1].error[1] = "Authentication failed: "
          /\ Stage(LastCall) = 2 =>
                res[1].error = <<"No accessible SharePoint sites found">>
          /\ Stage(LastCall) = 4 => res[1].error = NotFoundMessage
          /\ Stage(LastCall) = 5 => res[1].error[1] = "Failed to download file: "
          /\ Stage(LastCall) # 4 => ~LastCall.hit
    /\ pc = "SENT" => ~ENABLED Next

C13_Witness ==
    /\ pc = "FAILED"
    /\ StageCalls(2) # {} /\ StageCalls(3) # {} /\ StageCalls(4) # {}
    /\ Cardinality(StageCalls(5)) = 1
    /\ Cardinality(Kinds({"guid"})) = 3

\* C15: a non-success answer of the content endpoint ends the request with the
\* 500 "Failed to download file: <status> - <body>"; the content endpoint is
\* called at most once per request, for the located (driveId, itemId), and no
\* call of any kind follows it.
C15_DownloadFailureFatal ==
    /\ Cardinality(Kinds({"content"})) <= 1
    /\ \A i \in Kinds({"content"}) :
          /\ i = Len(calls)
          /\ Len(fileLocation) = 1
          /\ calls[i].drive = fileLocation[1].driveId
          /\ calls[i].item = fileLocation[1].itemId
          /\ Terminal
          /\ ~ENABLED Next
          /\ ~calls[i].hit =>
                /\ pc = "FAILED"
                /\ lastResp.status \notin 200..299
                /\ res = <<[status |-> 500, contentType |-> "application/json",
                            kind |-> "json", body |-> <<>>,
                            error |-> <<"Failed to download file: ",
                                        ToString(lastResp.status), " - ",
                                        lastResp.text>>]>>

C15_Witness ==
    /\ pc = "FAILED"
    /\ LastCall.kind = "content"
    /\ ~LastCall.hit
    /\ LastCall.drive = 2
    /\ s < Len(siteIds)

\* C18: every fetch of the legacy GetFileById endpoint carries the token issued
\* for https://<hostname>/.default, every site lookup, search, drive listing and
\* content download carries the token issued for
\* https://graph.microsoft.com/.default, and each token was issued by a
\* successful exchange for that scope made earlier in the same request.
C18_ScopesNeverMixed ==
    /\ \A i \in Kinds({"guid"}) :
          /\ calls[i].tok = "https://<hostname>/.default"
          /\ calls[i].tok # "https://graph.microsoft.com/.default"
          /\ \E j \in 1..(i - 1) :
                /\ calls[j].kind = "token"
                /\ calls[j].name = "https://<hostname>/.default"
                /\ calls[j].hit
    /\ \A i \in Kinds({"site", "siteSearch", "drives", "driveSearch", "content"}) :
          /\ calls[i].tok = "https://graph.microsoft.com/.default"
          /\ calls[i].tok # "https://<hostname>/.default"
          /\ calls[1].kind = "token"
          /\ calls[1].name = "https://graph.microsoft.com/.default"
          /\ calls[1].hit
    /\ \A i \in Kinds({"token"}) : calls[i].tok = ""

C18_Witness ==
    /\ Cardinality(Kinds({"guid"})) = 3
    /\ Kinds({"siteSearch"}) # {}
    /\ Kinds({"drives"}) # {}
    /\ Kinds({"driveSearch"}) # {}
    /\ Kinds({"content"}) # {}

\* C19: the handle (driveId, itemId) exists only after a search response with
\* a 2xx status and a non-empty value list, and is built from that response's
\* first item (and, for a drive search, the drive searched); without such a
\* response there is no handle; the content endpoint is called only with the
\* handle so built.
C19_HandleFromSuccessfulSearch ==
    /\ Len(fileLocation) <= 1
    /\ fileLocation # <<>> <=>
          \E i \in Kinds({"siteSearch", "driveSearch"}) : calls[i].hit
    /\ \A i \in Kinds({"siteSearch", "driveSearch"}) :
          calls[i].hit =>
             \A j \in Kinds({"siteSearch", "drives", "driveSearch"}) : j <= i
    /\ pc = "DOWNLOAD" =>
          /\ Len(fileLocation) = 1
          /\ LastCall.kind \in {"siteSearch", "driveSearch"}
          /\ lastResp.status \in 200..299
          /\ lastResp.hasValue
          /\ Len(lastResp.value) >= 1
          /\ fileLocation[1].itemId = lastResp.value[1].id
          /\ fileLocation[1].driveId =
                IF LastCall.kind = "siteSearch"
                THEN lastResp.value[1].parentDriveId
                ELSE LastCall.drive
    /\ \A i \in Kinds({"content"}) :
          /\ Len(fileLocation) = 1
          /\ calls[i].drive = fileLocation[1].driveId
          /\ calls[i].item = fileLocation[1].itemId
          /\ calls[i - 1].kind \in {"siteSearch", "driveSearch"}
          /\ calls[i - 1].hit
    /\ pc \in {"AUTH", "SITES", "GUID_TOKEN", "GUID_FILE", "SEARCH", "DRIVES",
               "DRIVE_SEARCH"} => fileLocation = <<>>

C19_Witness ==
    /\ pc = "DOWNLOAD"
    /\ LastCall.kind = "driveSearch"
    /\ \E i \in Kinds({"siteSearch"}) : calls[i].site = siteIds[s].id
    /\ fileLocation = <<[driveId |-> 2, itemId |-> 2]>>

C19_NoHandleWitness ==
    /\ pc = "DRIVES"
    /\ lastResp.status = 404
    /\ lastResp.hasValue
    /\ Len(lastResp.value) >= 1
    /\ fileLocation = <<>>

\* the calls of getFileByGuid: its token exchange and its fetches
TierACalls == SpTokenCalls \cup Kinds({"guid"})

\* C14, as stated: Tier A does not wait on the outcome of the site lookups, so
\* a request that got its Graph token and has ended has tried Tier A, also when
\* no site candidate resolved.
C14_Original ==
    (Terminal /\ calls[1].hit) => TierACalls # {}

\* C14, amended: site resolution always runs before Tier A. Tier A is tried
\* only after all three lookups, at least one of them successful; a successful
\* legacy fetch then ends the request SENT with the fetched payload, whatever
\* the other lookups returned, with no search, listing or download call; a
\* request none of whose site candidates resolves ends FAILED with the no-site
\* error and no Tier A call, and that is the only failure of site resolution.
C14_TierAAfterSiteResolution ==
    /\ TierACalls # {} =>
          /\ Len(SiteCalls) = 3
          /\ Len(siteIds) >= 1
          /\ \A i \in TierACalls : \A j \in Kinds({"site"}) : j < i
    /\ \A i \in Kinds({"guid"}) :
          calls[i].hit =>
             /\ i = Len(calls)
             /\ pc = "SENT"
             /\ res = <<FileResponse(lastResp.buffer)>>
             /\ Kinds({"siteSearch", "drives", "driveSearch", "content"}) = {}
    /\ (Len(SiteCalls) = 3 /\ \A i \in Kinds({"site"}) : ~calls[i].hit) =>
          /\ pc = "FAILED"
          /\ res = <<ErrorResponse(NoSitesMessage)>>
          /\ TierACalls = {}
          /\ LastCall.kind = "site"
    /\ (pc = "FAILED" /\ LastCall.kind = "site") => siteIds = <<>>

C14_Witness ==
    /\ pc = "SENT"
    /\ LastCall.kind = "guid"
    /\ LastCall.hit
    /\ Len(siteIds) = 1
    /\ ~SiteCalls[1].hit
    /\ ~SiteCalls[2].hit

\* the required settings that are unset or empty, in the order tenant id,
\* client id, client secret, hostname
MissingSettings ==
    SelectSeq(<<"SHAREPOINT_TENANT_ID", "SHAREPOINT_CLIENT_ID",
                "SHAREPOINT_CLIENT_SECRET", "SHAREPOINT_HOSTNAME">>,
              LAMBDA n : n \notin DOMAIN env \/ env[n] = "")

\* C11: when any of the four required settings is unset or empty the process
\* exits at start-up: it never listens, makes no upstream call, answers no
\* request, and the one line it reports lists exactly the unset or empty
\* settings, comma-separated, in the order tenant id, client id, client
\* secret, hostname; when none is, it reports nothing and listens, whether
\* or not SHAREPOINT_SITE_NAME is set.
C11_StartupValidation ==
    /\ pc # "START" => (MissingSettings # <<>> <=> pc = "EXITED")
    /\ MissingSettings # <<>> =>
          /\ pc \in {"START", "EXITED"}
          /\ calls = <<>>
          /\ res = <<>>
    /\ pc = "EXITED" =>
          /\ ~ENABLED Next
          /\ Len(stderr) = 1
          /\ stderr[1][1] = "Failed to start server:"
          /\ stderr[1][2] = "Missing required environment variables: "
          /\ LET m == SubSeq(stderr[1], 3, Len(stderr[1]))
                 n == Len(MissingSettings)
             IN  /\ Len(m) = 2 * n - 1
                 /\ \A i \in 1..n : m[2 * i - 1] = MissingSettings[i]
                 /\ \A i \in 1..(n - 1) : m[2 * i] = ", "
    /\ (MissingSettings = <<>> /\ pc # "START") =>
          /\ stderr = <<>>
          /\ pc # "EXITED"

C11_Witness ==
    /\ pc = "EXITED"
    /\ "SHAREPOINT_TENANT_ID" \notin DOMAIN env
    /\ DOMAIN env = {"SHAREPOINT_CLIENT_ID", "SHAREPOINT_CLIENT_SECRET",
                     "SHAREPOINT_HOSTNAME"}
    /\ env["SHAREPOINT_CLIENT_ID"] = "configured"
    /\ env["SHAREPOINT_CLIENT_SECRET"] = "configured"
    /\ env["SHAREPOINT_HOSTNAME"] = ""
    /\ stderr = <<<<"Failed to start server:",
                    "Missing required environment variables: ",
                    "SHAREPOINT_TENANT_ID", ", ", "SHAREPOINT_HOSTNAME">>>>

C11_ListeningWitness ==
    /\ pc = "LISTENING"
    /\ "SHAREPOINT_SITE_NAME" \notin DOMAIN env

\* a request is in flight
InFlight ==
    pc \in {"AUTH", "SITES", "GUID_TOKEN", "GUID_FILE", "SEARCH", "DRIVES",
            "DRIVE_SEARCH", "DOWNLOAD"}

\* C20: when every upstream call completes, an accepted request eventually is
\* SENT or FAILED, has then written exactly one response and takes no further
\* step; until then it has written none, and it leaves the step it is in only
\* by the completion of the call it is suspended on, so a call that never
\* completes leaves it there with no response.
C20_AcceptedRequestTerminates ==
    /\ InFlight ~> Terminal
    /\ [](Terminal => Len(res) = 1)
    /\ [](InFlight => res = <<>>)
    /\ [][~Terminal]_vars
    /\ [][InFlight => Len(calls') = Len(calls) + 1]_vars

C20_Witness ==
    /\ pc = "SENT"
    /\ LastCall.kind = "content"
    /\ Kinds({"driveSearch"}) # {}
    /\ s = 2

\* ------------------------------------------------ claims about the replay
IsPrefix(a, b) == Len(a) <= Len(b) /\ SubSeq(b, 1, Len(a)) = a

\* the invocations made after the first run: the one running, the one parked
Requests ==
    IF firstRun = <<>> THEN {} ELSE {Locals} \cup {parked[i] : i \in DOMAIN parked}

\* the invocation r has issued the calls the lone run issued, in that order,
\* and has ended exactly when it has issued them all, with the same response
SameAsAlone(r) ==
    /\ IsPrefix(r.calls, firstRun[1].calls)
    /\ r.pc \in {"SENT", "FAILED"} <=> r.calls = firstRun[1].calls
    /\ r.pc \in {"SENT", "FAILED"} => r.res = firstRun[1].res
    /\ r.pc \notin {"SENT", "FAILED"} => r.res = <<>>

\* what the invocation r holds, it obtained by calls of its own
OwnResults(r) ==
    LET hits(K) == {i \in DOMAIN r.calls : r.calls[i].kind \in K /\ r.calls[i].hit}
        sites == SelectSeq(r.calls, LAMBDA e : e.kind = "site" /\ e.hit)
    IN  /\ r.calls # <<>> =>
              /\ r.calls[1].kind = "token"
              /\ r.calls[1].name = "https://graph.microsoft.com/.default"
        /\ r.accessToken # "" <=> (r.calls # <<>> /\ r.calls[1].hit)
        /\ r.spToken # "" <=>
              \E i \in hits({"token"}) :
                  r.calls[i].name = "https://<hostname>/.default"
        /\ r.siteIds = [i \in 1..Len(sites) |-> [id |-> sites[i].got]]
        /\ r.fileLocation # <<>> <=> hits({"siteSearch", "driveSearch"}) # {}
        /\ r.fileBuffer # <<>> <=> hits({"guid", "content"}) # {}

\* C16: of two requests in flight at once, interleaved at their awaits in any
\* way, each makes its own token exchange and holds only what its own calls
\* returned, and each issues the calls and gives the response of the request
\* running alone against the same upstream answers.
C16_ConcurrentRequestsIndependent ==
    parked # <<>> => \A r \in Requests : SameAsAlone(r) /\ OwnResults(r)

C16_Witness ==
    /\ parked # <<>>
    /\ pc = "DRIVE_SEARCH"
    /\ parked[1].pc = "GUID_FILE"
    /\ Len(parked[1].calls) >= 6

\* C17: a second run of the pipeline, with the same configuration and against
\* an upstream that answers every request as it did in the first run, issues
\* the same calls in the same order and writes the same response (status,
\* content type, body or error).
C17_Deterministic ==
    (firstRun # <<>> /\ parked = <<>>) =>
       /\ IsPrefix(calls, firstRun[1].calls)
       /\ Terminal <=> calls = firstRun[1].calls
       /\ Terminal => res = firstRun[1].res
       /\ Len(res) <= 1

C17_Witness ==
    /\ firstRun # <<>>
    /\ parked = <<>>
    /\ pc = "SENT"
    /\ LastCall.kind = "content"
    /\ Cardinality(Kinds({"driveSearch"})) >= 2
    /\ Len(siteIds) >= 2

\* C21: the list getAllSiteIds returns holds no site id twice, no site URL is
\* looked up twice in a request, and no site has its default drive searched
\* or its drives listed twice.
C21_SitesFormSet ==
    /\ \A i, j \in DOMAIN siteIds : i # j => siteIds[i].id # siteIds[j].id
    /\ \A i, j \in Kinds({"site"}) : i # j => calls[i].name # calls[j].name
    /\ \A i, j \in Kinds({"siteSearch"}) : i # j => calls[i].site # calls[j].site
    /\ \A i, j \in Kinds({"drives"}) : i # j => calls[i].site # calls[j].site

\* the default configuration: SHAREPOINT_SITE_NAME unset, the root site not
\* accessible, the one site resolved twice and searched twice
C21_Witness ==
    /\ pc = "FAILED"
    /\ Len(calls) >= 4
    /\ "SHAREPOINT_SITE_NAME" \notin DOMAIN env
    /\ calls[2].name = "/sites/SuniqueKnowledgeBase"
    /\ calls[3].name = "/sites/SuniqueKnowledgeBase"
    /\ ~calls[4].hit
    /\ siteIds = <<[id |-> "siteA"], [id |-> "siteA"]>>
    /\ Cardinality({i \in Kinds({"siteSearch"}) : calls[i].site = "siteA"}) = 2
    /\ Cardinality({i \in Kinds({"drives"}) : calls[i].site = "siteA"}) = 2

\* C22: the handle findFileInAllSites returns, and every handle the content
\* endpoint is called with, has a driveId and an itemId that are defined.
C22_HandleDefined ==
    /\ \A i \in DOMAIN fileLocation :
          /\ fileLocation[i].driveId # Undefined
          /\ fileLocation[i].itemId # Undefined
    /\ \A i \in Kinds({"content"}) :
          /\ calls[i].drive # Undefined
          /\ calls[i].item # Undefined

\* a default-drive search matched an item without a parent reference, and the
\* content endpoint was called as /drives/undefined/items/<id>/content
C22_Witness ==
    /\ Len(calls) >= 2
    /\ LastCall.kind = "content"
    /\ LastCall.drive = Undefined
    /\ LastCall.item # Undefined
    /\ calls[Len(calls) - 1].kind = "siteSearch"
    /\ calls[Len(calls) - 1].hit

\* C23: a request in which a legacy fetch succeeded holds no handle, never
\* calls the content endpoint, and answers 200 with the buffer of that fetch,
\* the first and only successful one; the content endpoint is called, once,
\* only after Tier A was inconclusive and a search of Tier B or C matched, and
\* every such request calls it.
C23_TierASuccessSkipsDownload ==
    /\ \A i \in Kinds({"guid"}) :
          calls[i].hit =>
             /\ fileLocation = <<>>
             /\ Kinds({"content"}) = {}
             /\ \A j \in Kinds({"guid"}) : j < i => ~calls[j].hit
             /\ i = Len(calls)
             /\ fileBuffer = <<lastResp.buffer>>
             /\ res = <<[status |-> 200,
                         contentType |->
                           "application/vnd.openxmlformats-officedocument.spreadsheetml.sheet",
                         kind |-> "binary", body |-> lastResp.buffer,
                         error |-> <<>>]>>
    /\ Kinds({"content"}) # {} =>
          /\ Cardinality(Kinds({"content"})) = 1
          /\ TierAInconclusive
          /\ \E i \in Kinds({"siteSearch", "driveSearch"}) : calls[i].hit
    /\ (\E i \in Kinds({"siteSearch", "driveSearch"}) : calls[i].hit) =>
          \/ pc = "DOWNLOAD" /\ Kinds({"content"}) = {}
          \/ Terminal /\ Cardinality(Kinds({"content"})) = 1

C23_Witness ==
    /\ pc = "SENT"
    /\ Cardinality(Kinds({"guid"})) = 3
    /\ LastCall.kind = "guid"
    /\ LastCall.hit
    /\ lastResp.buffer = <<>>
    /\ res[1].body = <<>>

\* ------------------------------------- findFile of the earlier server.js
\* findFile(accessToken, siteId) of the earlier version of the server, run
\* side by side with findFileInAllSites(accessToken, [site]) of the current
\* one: the current locator takes a step, then findFile takes its step on the
\* same upstream answer.  The locals of findFile are kept in `parked`.

FindFileNotFoundMessage ==
    <<"File \"", fileName, "\" not found in any SharePoint drives">>

\* the request findFile is suspended on
FindFilePending(f) ==
    CASE f.pc = "SEARCH" ->
           Key(Call("siteSearch", fileName, f.siteId, 0, 0, f.accessToken,
                    FALSE, "", 0))
      [] f.pc = "DRIVES" ->
           Key(Call("drives", "", f.siteId, 0, 0, f.accessToken, FALSE, "", 0))
      [] f.pc = "DRIVE_SEARCH" ->
           Key(Call("driveSearch", fileName, "", f.drives[f.d].id, 0,
                    f.accessToken, FALSE, "", 0))

\* FindFileStep giving up after the first listed drive
FindFileStep_FirstDriveOnly(f, resp) ==
    LET hit == Ok(resp) /\ resp.hasValue /\ Len(resp.value) > 0
        listed == IF resp.hasValue THEN resp.value ELSE <<>>
        key == FindFilePending(f)
        log(h, n) == Append(f.calls, Call(key.kind, key.name, key.site, key.drive,
                                          key.item, key.tok, h, "", n))
    IN  CASE f.pc = "SEARCH" ->
               IF hit
               THEN [f EXCEPT !.pc = "FOUND", !.calls = log(TRUE, 0),
                              !.location = <<[driveId |-> resp.value[1].parentDriveId,
                                              itemId |-> resp.value[1].id]>>]
               ELSE [f EXCEPT !.pc = "DRIVES", !.calls = log(FALSE, 0)]
          [] f.pc = "DRIVES" ->
               IF Ok(resp) /\ Len(listed) > 0
               THEN [f EXCEPT !.pc = "DRIVE_SEARCH", !.drives = listed, !.d = 1,
                              !.calls = log(TRUE, Len(listed))]
               ELSE [f EXCEPT !.pc = "THROWN", !.error = FindFileNotFoundMessage,
                              !.calls = log(Ok(resp), 0)]
          [] f.pc = "DRIVE_SEARCH" ->
               IF hit
               THEN [f EXCEPT !.pc = "FOUND", !.calls = log(TRUE, 0),
                              !.location = <<[driveId |-> f.drives[f.d].id,
                                              itemId |-> resp.value[1].id]>>]
               ELSE [f EXCEPT !.pc = "THROWN", !.error = FindFileNotFoundMessage,
                              !.calls = log(FALSE, 0)]

\* one fetch of findFile and the code that follows it up to the next fetch,
\* the return or the throw
FindFileStep(f, resp) ==
    LET hit == Ok(resp) /\ resp.hasValue /\ Len(resp.value) > 0
        listed == IF resp.hasValue THEN resp.value ELSE <<>>
        key == FindFilePending(f)
        log(h, n) == Append(f.calls, Call(key.kind, key.name, key.site, key.drive,
                                          key.item, key.tok, h, "", n))
    IN  CASE f.pc = "SEARCH" ->
               IF hit
               THEN [f EXCEPT !.pc = "FOUND", !.calls = log(TRUE, 0),
                              !.location = <<[driveId |-> resp.value[1].parentDriveId,
                                              itemId |-> resp.value[1].id]>>]
               ELSE [f EXCEPT !.pc = "DRIVES", !.calls = log(FALSE, 0)]
          [] f.pc = "DRIVES" ->
               IF Ok(resp) /\ Len(listed) > 0
               THEN [f EXCEPT !.pc = "DRIVE_SEARCH", !.drives = listed, !.d = 1,
                              !.calls = log(TRUE, Len(listed))]
               ELSE [f EXCEPT !.pc = "THROWN", !.error = FindFileNotFoundMessage,
                              !.calls = log(Ok(resp), 0)]
          [] f.pc = "DRIVE_SEARCH" ->
               IF hit
               THEN [f EXCEPT !.pc = "FOUND", !.calls = log(TRUE, 0),
                              !.location = <<[driveId |-> f.drives[f.d].id,
                                              itemId |-> resp.value[1].id]>>]
               ELSE IF f.d < Len(f.drives)
                    THEN [f EXCEPT !.d = f.d + 1, !.calls = log(FALSE, 0)]
                    ELSE [f EXCEPT !.pc = "THROWN",
                                   !.error = FindFileNotFoundMessage,
                                   !.calls = log(FALSE, 0)]

\* both locators are entered with the same token and the same one site
LocatorInit ==
    /\ env \in {e \in Environments : \A i \in 1..4 :
                    RequiredNames[i] \in DOMAIN e /\ e[RequiredNames[i]] # ""}
    /\ stderr = <<>>
    /\ CONFIG = [siteName |-> IF Falsy(Env("SHAREPOINT_SITE_NAME"))
                              THEN DefaultSiteName
                              ELSE env["SHAREPOINT_SITE_NAME"]]
    /\ pc = "SEARCH"
    /\ accessToken = GraphScope
    /\ spToken = ""
    /\ \E id \in SiteIds :
          /\ siteIds = <<[id |-> id]>>
          /\ parked = <<[pc |-> "SEARCH", accessToken |-> GraphScope,
                         siteId |-> id, drives |-> <<>>, d |-> 1,
                         location |-> <<>>, error |-> <<>>, calls |-> <<>>]>>
    /\ k = 1
    /\ s = 1
    /\ drives = <<>>
    /\ d = 1
    /\ fileLocation = <<>>
    /\ fileBuffer = <<>>
    /\ res = <<>>
    /\ calls = <<>>
    /\ lastResp = NoResp
    /\ fixture = <<>>
    /\ firstRun = <<>>

\* findFile receives the answer the current locator has just received to the
\* same request
FindFile ==
    /\ Len(parked[1].calls) < Len(calls)
    /\ parked[1].pc \in {"SEARCH", "DRIVES", "DRIVE_SEARCH"}
    /\ FindFilePending(parked[1]) = Key(calls[Len(calls)])
    /\ parked' = <<FindFileStep(parked[1], lastResp)>>
    /\ UNCHANGED <<env, stderr, CONFIG, pc, accessToken, spToken, siteIds, k, s,
                   drives, d, fileLocation, fileBuffer, res, calls, lastResp,
                   fixture, firstRun>>

LocatorNext ==
    \/ Len(parked[1].calls) = Len(calls) /\ SearchSiteDrive
    \/ Len(parked[1].calls) = Len(calls) /\ ListDrives
    \/ Len(parked[1].calls) = Len(calls) /\ SearchDrive
    \/ FindFile

LocatorSpec == LocatorInit /\ [][LocatorNext]_vars

\* C24: entered with the same one site and given the same answers, findFile
\* and findFileInAllSites issue the same calls in the same order; they end
\* together, either both returning the same (driveId, itemId) or both
\* throwing a not-found error that names the file.
C24_LocatorsAgree ==
    LET f == parked[1]
    IN  /\ IsPrefix(f.calls, calls)
        /\ Len(calls) <= Len(f.calls) + 1
        /\ Len(f.calls) < Len(calls) =>
              /\ f.pc \in {"SEARCH", "DRIVES", "DRIVE_SEARCH"}
              /\ FindFilePending(f) = Key(calls[Len(calls)])
        /\ Len(f.calls) = Len(calls) =>
              /\ pc \in {"SEARCH", "DRIVES", "DRIVE_SEARCH"} =>
                    /\ f.pc = pc
                    /\ FindFilePending(f) = Pending
              /\ pc = "DOWNLOAD" <=> f.pc = "FOUND"
              /\ pc = "FAILED" <=> f.pc = "THROWN"
              /\ pc = "DOWNLOAD" => f.location = fileLocation
              /\ pc = "FAILED" =>
                    /\ res[1].error =
                          <<"File \"", "Assembly Schedule (New Version).xlsx",
                            "\" not found in any accessible SharePoint sites">>
                    /\ f.error =
                          <<"File \"", "Assembly Schedule (New Version).xlsx",
                            "\" not found in any SharePoint drives">>

C24_Witness ==
    /\ pc = "DOWNLOAD"
    /\ parked[1].pc = "FOUND"
    /\ Len(parked[1].calls) = 4
    /\ parked[1].calls = calls
    /\ parked[1].location = <<[driveId |-> 2, itemId |-> 2]>>

C24_NotFoundWitness ==
    /\ pc = "FAILED"
    /\ parked[1].pc = "THROWN"
    /\ Len(parked[1].calls) = 4
    /\ parked[1].calls = calls

====
